---- MODULE Spec2Model ----
(***************************************************************************)
(* Fruit inventory: FruitService over FruitRepository over the SQLite      *)
(* table `fruits`.  The store is the table plus its AUTOINCREMENT counter; *)
(* every service call is one action that runs the whole handler.           *)
(*                                                                         *)
(* Numbers are held as integer numerators over Scale, so 1.5 is 3 when     *)
(* Scale = 2; ids and timestamps are plain integers.                       *)
(***************************************************************************)
EXTENDS Integers, Sequences, FiniteSets, TLC

Scale == 2
MaxSeq == 2
MaxQty == 1
MaxTime == 1
MaxItems == 3
MaxTotalItems == 9
MaxItemsPerPage == 3

----------------------------------------------------------------------------
(* Python values as the handlers see them                                  *)

Absent == [t |-> "absent", v |-> 0]
PyNone == [t |-> "none", v |-> 0]
PyInt(k) == [t |-> "int", v |-> k * Scale]
PyFloat(n) == [t |-> "float", v |-> n]
PyStr(n) == [t |-> "str", v |-> n]
PyText == [t |-> "text", v |-> 0]

NameAbsent == [t |-> "absent", s |-> ""]
NameStr(s) == [t |-> "str", s |-> s]
NameInt == [t |-> "int", s |-> ""]

ImgAbsent == "<absent>"
ImgNone == "NULL"

PyId(k) == [t |-> "int", v |-> k]

Trunc(n) == IF n >= 0 THEN n \div Scale ELSE -((-n) \div Scale)

float_ok(x) == x.t \in {"int", "float", "str"}
float_(x) == x.v

int_ok(x) == x.t \in {"int", "float"} \/ (x.t = "str" /\ x.v % Scale = 0)
int_(x) == Trunc(x.v)

isinstance_int(x) == x.t = "int"

----------------------------------------------------------------------------
(* models: Fruit and its conversions                                       *)

NoFruit ==
  [id |-> PyNone, name |-> NameAbsent, price |-> Absent, quantity |-> Absent,
   category |-> NameAbsent, image_path |-> ImgAbsent]

ID_INDEX == 0
NAME_INDEX == 1
PRICE_INDEX == 2
QUANTITY_INDEX == 3
CATEGORY_INDEX == 4
IMAGE_PATH_INDEX == 5

PyNumber(n) == IF n % Scale = 0 THEN [t |-> "int", v |-> n] ELSE PyFloat(n)

from_tuple(data_tuple) ==
  [id |-> PyId(data_tuple[ID_INDEX + 1]),
   name |-> NameStr(data_tuple[NAME_INDEX + 1]),
   price |-> PyFloat(data_tuple[PRICE_INDEX + 1]),
   quantity |-> PyNumber(data_tuple[QUANTITY_INDEX + 1]),
   category |-> NameStr(data_tuple[CATEGORY_INDEX + 1]),
   image_path |-> data_tuple[IMAGE_PATH_INDEX + 1]]

to_tuple(self) ==
  <<self.name, self.price, self.quantity, self.category, self.image_path>>

from_dict(data) ==
  [id |-> IF data.id = Absent THEN PyNone ELSE data.id,
   name |-> data.name,
   price |-> data.price,
   quantity |-> data.quantity,
   category |-> data.category,
   image_path |-> IF data.image_path = ImgAbsent THEN ImgNone ELSE data.image_path]

----------------------------------------------------------------------------
(* database: the fruits table and its connection                           *)

Affinity(x) == x.v

BindRow(t, ts) ==
  [name |-> t[1].s, price |-> Affinity(t[2]), quantity |-> Affinity(t[3]),
   category |-> t[4].s, image_path |-> t[5],
   created_at |-> ts, updated_at |-> ts]

SelectStar(d, i) ==
  LET r == d.fruits[i]
  IN  <<i, r.name, r.price, r.quantity, r.category, r.image_path,
        r.created_at, r.updated_at>>

\* Mutant: rowid chosen as for a table without AUTOINCREMENT (largest live id + 1).
NextRowIdMax(d) ==
  IF DOMAIN d.fruits = {} THEN 1
  ELSE (CHOOSE i \in DOMAIN d.fruits : \A j \in DOMAIN d.fruits : j <= i) + 1

NextRowId(d) == d.seq + 1

\* Mutant: the trigger stamps created_at instead of updated_at.
update_fruits_timestamp_created(r, ts) == [r EXCEPT !.created_at = ts]

update_fruits_timestamp(r, ts) == [r EXCEPT !.updated_at = ts]

find_by_id(d, i) ==
  IF i \in DOMAIN d.fruits THEN from_tuple(SelectStar(d, i)) ELSE NoFruit

exists(d, i) == i \in DOMAIN d.fruits

InsertRow(d, t, ts) ==
  LET last_id == NextRowId(d)
  IN  [fruits |-> d.fruits @@ (last_id :> BindRow(t, ts)), seq |-> last_id]

get_connection(committed, uncommitted) == committed

repo_create(d, model, ts) ==
  LET last_id == NextRowId(d)
      inserted == InsertRow(d, to_tuple(model), ts)
  IN  [db |-> inserted, rec |-> find_by_id(get_connection(d, inserted), last_id)]

\* Mutant: the row is written with REPLACE INTO instead of UPDATE.
UpdateRowReplace(d, t, i, ts) ==
  [d EXCEPT !.fruits =
     (i :> update_fruits_timestamp(
             [BindRow(t, ts) EXCEPT
                !.created_at = IF i \in DOMAIN d.fruits
                                 THEN d.fruits[i].created_at ELSE ts], ts))
       @@ d.fruits]

UpdateRow(d, t, i, ts) ==
  IF i \in DOMAIN d.fruits
    THEN [d EXCEPT !.fruits[i] =
            update_fruits_timestamp(
              [BindRow(t, ts) EXCEPT !.created_at = d.fruits[i].created_at,
                                     !.updated_at = d.fruits[i].updated_at], ts)]
    ELSE d

WhereId(x) == IF x.t = "int" THEN x.v ELSE 0

repo_update(d, model, ts) ==
  IF model.id = PyNone
    THEN [db |-> d, rec |-> NoFruit, err |-> "Model must have an ID to be updated"]
    ELSE LET d2 == UpdateRow(d, to_tuple(model), WhereId(model.id), ts)
         IN  [db |-> d2, rec |-> find_by_id(d2, WhereId(model.id)), err |-> ""]

\* Mutant: DELETE without its WHERE clause.
repo_delete_all(d, i) ==
  [db |-> [d EXCEPT !.fruits = <<>>],
   rowcount |-> Cardinality(DOMAIN d.fruits)]

repo_delete(d, i) ==
  [db |-> [d EXCEPT !.fruits = [j \in DOMAIN d.fruits \ {i} |-> d.fruits[j]]],
   rowcount |-> IF i \in DOMAIN d.fruits THEN 1 ELSE 0]

repo_update_stock(d, fruit_id, new_quantity, ts) ==
  LET d2 == IF fruit_id \in DOMAIN d.fruits
              THEN [d EXCEPT !.fruits[fruit_id] =
                      update_fruits_timestamp(
                        [@ EXCEPT !.quantity = Affinity(new_quantity)], ts)]
              ELSE d
  IN  [db |-> d2, rec |-> find_by_id(d2, fruit_id), err |-> ""]

\* Mutant: the negative-stock test written as <= 0.
repo_adjust_stock_le(d, fruit_id, adjustment, ts) ==
  LET fruit == find_by_id(d, fruit_id)
      new_quantity == PyNumber(fruit.quantity.v + adjustment.v)
  IN  IF fruit = NoFruit
        THEN [db |-> d, rec |-> NoFruit, err |-> ""]
        ELSE IF new_quantity.v <= 0
          THEN [db |-> d, rec |-> NoFruit,
                err |-> "Stock adjustment would result in negative quantity"]
          ELSE repo_update_stock(d, fruit_id, new_quantity, ts)

\* Mutant: a negative result is clamped to zero instead of rejected.
repo_adjust_stock_clamp(d, fruit_id, adjustment, ts) ==
  LET fruit == find_by_id(d, fruit_id)
      new_quantity == PyNumber(fruit.quantity.v + adjustment.v)
  IN  IF fruit = NoFruit
        THEN [db |-> d, rec |-> NoFruit, err |-> ""]
        ELSE IF new_quantity.v < 0
          THEN repo_update_stock(d, fruit_id, PyInt(0), ts)
          ELSE repo_update_stock(d, fruit_id, new_quantity, ts)

\* Mutant: the new quantity is written before it is tested.
repo_adjust_stock_write_first(d, fruit_id, adjustment, ts) ==
  LET fruit == find_by_id(d, fruit_id)
      new_quantity == PyNumber(fruit.quantity.v + adjustment.v)
      written == repo_update_stock(d, fruit_id, new_quantity, ts)
  IN  IF fruit = NoFruit
        THEN [db |-> d, rec |-> NoFruit, err |-> ""]
        ELSE IF new_quantity.v < 0
          THEN [db |-> written.db, rec |-> NoFruit,
                err |-> "Stock adjustment would result in negative quantity"]
          ELSE written

repo_adjust_stock(d, fruit_id, adjustment, ts) ==
  LET fruit == find_by_id(d, fruit_id)
      new_quantity == PyNumber(fruit.quantity.v + adjustment.v)
  IN  IF fruit = NoFruit
        THEN [db |-> d, rec |-> NoFruit, err |-> ""]
        ELSE IF new_quantity.v < 0
          THEN [db |-> d, rec |-> NoFruit,
                err |-> "Stock adjustment would result in negative quantity"]
          ELSE repo_update_stock(d, fruit_id, new_quantity, ts)

----------------------------------------------------------------------------
(* services: validation                                                    *)

NoError == [msg |-> "", fields |-> <<>>]
Error(m, fs) == [msg |-> m, fields |-> fs]

_get_required_fields == <<"name", "category", "price", "quantity">>

KeyIn(data, f) == data[f].t # "absent"

\* Mutant: only the first missing field is reported.
missing_fields_first(data) ==
  LET all == SelectSeq(_get_required_fields, LAMBDA f : ~KeyIn(data, f))
  IN  IF all = <<>> THEN <<>> ELSE <<Head(all)>>

missing_fields(data) ==
  SelectSeq(_get_required_fields, LAMBDA f : ~KeyIn(data, f))

base_validate_model_data(data, update) ==
  IF ~update /\ missing_fields(data) # <<>>
    THEN Error("Missing required fields", missing_fields(data))
    ELSE NoError

\* Mutant: the length test dropped, only the type is tested.
name_invalid_type_only(x) == x.t # "str"

name_invalid(x) == x.t # "str" \/ Len(x.s) < 2

try_price(x) ==
  IF ~float_ok(x) THEN "could not convert to float"
  ELSE IF float_(x) < 0 THEN "Price cannot be negative"
  ELSE ""

try_quantity(x) ==
  IF ~int_ok(x) THEN "invalid literal for int()"
  ELSE IF int_(x) < 0 THEN "Quantity cannot be negative"
  ELSE ""

_validate_model_data(data, update) ==
  IF base_validate_model_data(data, update) # NoError
    THEN base_validate_model_data(data, update)
  ELSE IF KeyIn(data, "name") /\ name_invalid(data.name)
    THEN Error("Name must be a string with at least 2 characters", <<"name">>)
  ELSE IF KeyIn(data, "category") /\ name_invalid(data.category)
    THEN Error("Category must be a string with at least 2 characters", <<"category">>)
  ELSE IF KeyIn(data, "price") /\ try_price(data.price) # ""
    THEN Error("Price must be a valid number", <<"price">>)
  ELSE IF KeyIn(data, "quantity") /\ try_quantity(data.quantity) # ""
    THEN Error("Quantity must be a valid integer", <<"quantity">>)
  ELSE NoError

\* Mutant: the id test written as < 0.
id_invalid_lt(id_value) == ~isinstance_int(id_value) \/ id_value.v < 0

id_invalid(id_value) == ~isinstance_int(id_value) \/ id_value.v <= 0

----------------------------------------------------------------------------
(* services: the calls.  Each yields the store after the call, what the    *)
(* call returned ("raise" with err when it raised) and the record or list. *)

Raise(d, e) ==
  [db |-> d, ret |-> "raise", err |-> e, rec |-> NoFruit, list |-> <<>>,
   value |-> 0]
ReturnNone(d) ==
  [db |-> d, ret |-> "None", err |-> NoError, rec |-> NoFruit, list |-> <<>>,
   value |-> 0]
ReturnRec(d, r) ==
  [db |-> d, ret |-> "record", err |-> NoError, rec |-> r, list |-> <<>>,
   value |-> 0]
ReturnBool(d, b) ==
  [db |-> d, ret |-> IF b THEN "True" ELSE "False", err |-> NoError,
   rec |-> NoFruit, list |-> <<>>, value |-> 0]
ReturnList(d, l) ==
  [db |-> d, ret |-> "list", err |-> NoError, rec |-> NoFruit, list |-> l,
   value |-> 0]
ReturnValue(d, x) ==
  [db |-> d, ret |-> "value", err |-> NoError, rec |-> NoFruit, list |-> <<>>,
   value |-> x]

get_by_id(d, id_value) ==
  IF id_invalid(id_value) THEN Raise(d, Error("Invalid ID", <<"id">>))
  ELSE IF find_by_id(d, id_value.v) = NoFruit THEN ReturnNone(d)
  ELSE ReturnRec(d, find_by_id(d, id_value.v))

create(d, data, ts) ==
  IF _validate_model_data(data, FALSE) # NoError
    THEN Raise(d, _validate_model_data(data, FALSE))
    ELSE LET created == repo_create(d, from_dict(data), ts)
         IN  IF created.rec = NoFruit
               THEN Raise(created.db, Error("Failed to create Fruit", <<>>))
               ELSE ReturnRec(created.db, created.rec)

setattrs(existing_model, data) ==
  [id |-> IF data.id # Absent THEN data.id ELSE existing_model.id,
   name |-> IF KeyIn(data, "name") THEN data.name ELSE existing_model.name,
   price |-> IF KeyIn(data, "price") THEN data.price ELSE existing_model.price,
   quantity |-> IF KeyIn(data, "quantity") THEN data.quantity
                ELSE existing_model.quantity,
   category |-> IF KeyIn(data, "category") THEN data.category
                ELSE existing_model.category,
   image_path |-> IF data.image_path # ImgAbsent THEN data.image_path
                  ELSE existing_model.image_path]

\* Mutant: the data is validated before the record is looked up.
update_validate_first(d, id_value, data, ts) ==
  IF id_invalid(id_value) THEN Raise(d, Error("Invalid ID", <<"id">>))
  ELSE IF _validate_model_data(data, TRUE) # NoError
    THEN Raise(d, _validate_model_data(data, TRUE))
  ELSE IF find_by_id(d, id_value.v) = NoFruit THEN ReturnNone(d)
  ELSE LET updated == repo_update(d, setattrs(find_by_id(d, id_value.v), data), ts)
       IN  IF updated.err # "" THEN Raise(updated.db, Error(updated.err, <<"id">>))
           ELSE IF updated.rec = NoFruit
             THEN Raise(updated.db, Error("Failed to update Fruit", <<>>))
           ELSE ReturnRec(updated.db, updated.rec)

update(d, id_value, data, ts) ==
  IF id_invalid(id_value) THEN Raise(d, Error("Invalid ID", <<"id">>))
  ELSE IF find_by_id(d, id_value.v) = NoFruit THEN ReturnNone(d)
  ELSE IF _validate_model_data(data, TRUE) # NoError
    THEN Raise(d, _validate_model_data(data, TRUE))
  ELSE LET updated == repo_update(d, setattrs(find_by_id(d, id_value.v), data), ts)
       IN  IF updated.err # "" THEN Raise(updated.db, Error(updated.err, <<"id">>))
           ELSE IF updated.rec = NoFruit
             THEN Raise(updated.db, Error("Failed to update Fruit", <<>>))
           ELSE ReturnRec(updated.db, updated.rec)

delete(d, id_value) ==
  IF id_invalid(id_value) THEN Raise(d, Error("Invalid ID", <<"id">>))
  ELSE IF ~exists(d, id_value.v) THEN ReturnBool(d, FALSE)
  ELSE LET deleted == repo_delete(d, id_value.v)
       IN  ReturnBool(deleted.db, deleted.rowcount > 0)

\* Mutant: the quantity test written as <= 0.
update_stock_le(d, fruit_id, new_quantity, ts) ==
  IF id_invalid(fruit_id)
    THEN Raise(d, Error("Fruit ID must be a positive integer", <<"id">>))
  ELSE IF ~isinstance_int(new_quantity) \/ new_quantity.v <= 0
    THEN Raise(d, Error("Quantity must be a non-negative integer", <<"quantity">>))
  ELSE IF get_by_id(d, fruit_id).ret = "None" THEN ReturnNone(d)
  ELSE LET updated == repo_update_stock(d, fruit_id.v, new_quantity, ts)
       IN  IF updated.rec = NoFruit THEN ReturnNone(updated.db)
           ELSE ReturnRec(updated.db, updated.rec)

update_stock(d, fruit_id, new_quantity, ts) ==
  IF id_invalid(fruit_id)
    THEN Raise(d, Error("Fruit ID must be a positive integer", <<"id">>))
  ELSE IF ~isinstance_int(new_quantity) \/ new_quantity.v < 0
    THEN Raise(d, Error("Quantity must be a non-negative integer", <<"quantity">>))
  ELSE IF get_by_id(d, fruit_id).ret = "None" THEN ReturnNone(d)
  ELSE LET updated == repo_update_stock(d, fruit_id.v, new_quantity, ts)
       IN  IF updated.rec = NoFruit THEN ReturnNone(updated.db)
           ELSE ReturnRec(updated.db, updated.rec)

adjust_stock(d, fruit_id, adjustment, ts) ==
  IF id_invalid(fruit_id)
    THEN Raise(d, Error("Fruit ID must be a positive integer", <<"id">>))
  ELSE IF ~isinstance_int(adjustment)
    THEN Raise(d, Error("Adjustment must be an integer", <<"adjustment">>))
  ELSE LET adjusted == repo_adjust_stock(d, fruit_id.v, adjustment, ts)
       IN  IF adjusted.err # "" THEN Raise(adjusted.db, Error(adjusted.err, <<"quantity">>))
           ELSE IF adjusted.rec = NoFruit THEN ReturnNone(adjusted.db)
           ELSE ReturnRec(adjusted.db, adjusted.rec)

RECURSIVE SelectWhere(_, _, _, _)
SelectWhere(d, i, lo, hi) ==
  IF i > d.seq THEN <<>>
  ELSE IF i \in DOMAIN d.fruits /\ lo <= d.fruits[i].price /\ d.fruits[i].price <= hi
    THEN <<from_tuple(SelectStar(d, i))>> \o SelectWhere(d, i + 1, lo, hi)
  ELSE SelectWhere(d, i + 1, lo, hi)

\* Mutant: the lower bound of the range made exclusive.
find_by_price_range_above(d, min_price, max_price) ==
  SelectWhere(d, 1, min_price + 1, max_price)

find_by_price_range(d, min_price, max_price) == SelectWhere(d, 1, min_price, max_price)

get_by_price_range(d, min_price, max_price) ==
  IF ~float_ok(min_price) \/ ~float_ok(max_price)
    THEN Raise(d, Error("Price values must be valid numbers", <<"min_price", "max_price">>))
  ELSE IF float_(min_price) < 0 \/ float_(max_price) < 0
    THEN Raise(d, Error("Price values cannot be negative", <<"min_price", "max_price">>))
  ELSE IF float_(min_price) > float_(max_price)
    THEN Raise(d, Error("Minimum price cannot be greater than maximum price",
                        <<"min_price", "max_price">>))
  ELSE ReturnList(d, find_by_price_range(d, float_(min_price), float_(max_price)))

RECURSIVE SelectAll(_, _)
SelectAll(d, i) ==
  IF i > d.seq THEN <<>>
  ELSE IF i \in DOMAIN d.fruits
    THEN <<from_tuple(SelectStar(d, i))>> \o SelectAll(d, i + 1)
  ELSE SelectAll(d, i + 1)

find_all(d) == SelectAll(d, 1)

get_all(d) == ReturnList(d, find_all(d))

MinId(ids) == CHOOSE i \in ids : \A j \in ids : i <= j

\* SUM(quantity) and SUM(price * quantity) over the rows ids; the products
\* are numerators over Scale * Scale.
RECURSIVE SumQuantity(_, _)
SumQuantity(d, ids) ==
  IF ids = {} THEN 0
  ELSE d.fruits[MinId(ids)].quantity + SumQuantity(d, ids \ {MinId(ids)})

RECURSIVE SumValue(_, _)
SumValue(d, ids) ==
  IF ids = {} THEN 0
  ELSE d.fruits[MinId(ids)].price * d.fruits[MinId(ids)].quantity
         + SumValue(d, ids \ {MinId(ids)})

\* Mutant: only the first row is summed.
repo_get_total_inventory_value_first(d) ==
  IF DOMAIN d.fruits = {} THEN 0 ELSE SumValue(d, {MinId(DOMAIN d.fruits)})

repo_get_total_inventory_value(d) ==
  IF DOMAIN d.fruits = {} THEN 0 ELSE SumValue(d, DOMAIN d.fruits)

get_total_inventory_value(d) == ReturnValue(d, repo_get_total_inventory_value(d))

GroupRow(d, ids) ==
  [category |-> d.fruits[MinId(ids)].category,
   fruit_count |-> Cardinality(ids),
   total_quantity |-> SumQuantity(d, ids),
   total_value |-> SumValue(d, ids)]

\* Mutant: GROUP BY name in place of GROUP BY category.
RECURSIVE GroupByName(_, _)
GroupByName(d, ids) ==
  IF ids = {} THEN <<>>
  ELSE LET group == {j \in ids : d.fruits[j].name = d.fruits[MinId(ids)].name}
       IN  <<GroupRow(d, group)>> \o GroupByName(d, ids \ group)

\* GROUP BY category; the rows come in the order of each group's first id
\* (the order in which SQLite returns the groups is not modelled).
RECURSIVE GroupBy(_, _)
GroupBy(d, ids) ==
  IF ids = {} THEN <<>>
  ELSE LET group == {j \in ids : d.fruits[j].category = d.fruits[MinId(ids)].category}
       IN  <<GroupRow(d, group)>> \o GroupBy(d, ids \ group)

repo_get_category_summary_by_name(d) == GroupByName(d, DOMAIN d.fruits)

repo_get_category_summary(d) == GroupBy(d, DOMAIN d.fruits)

get_category_summary(d) == ReturnList(d, repo_get_category_summary(d))

\* The LIKE operator of SQLite: % matches any run of characters, _ any one
\* character, and ASCII letters match without regard to case.
UpperCase == "ABCDEFGHIJKLMNOPQRSTUVWXYZ"
LowerCase == "abcdefghijklmnopqrstuvwxyz"

ToLower(c) ==
  IF \E k \in 1 .. Len(UpperCase) : SubSeq(UpperCase, k, k) = c
    THEN LET k == CHOOSE k \in 1 .. Len(UpperCase) : SubSeq(UpperCase, k, k) = c
         IN  SubSeq(LowerCase, k, k)
    ELSE c

RECURSIVE Like(_, _)
Like(pattern, text) ==
  IF pattern = "" THEN text = ""
  ELSE LET c == SubSeq(pattern, 1, 1)
           rest == SubSeq(pattern, 2, Len(pattern))
       IN  IF c = "%"
             THEN \/ Like(rest, text)
                  \/ text # "" /\ Like(pattern, SubSeq(text, 2, Len(text)))
             ELSE /\ text # ""
                  /\ c = "_" \/ ToLower(c) = ToLower(SubSeq(text, 1, 1))
                  /\ Like(rest, SubSeq(text, 2, Len(text)))

RECURSIVE SelectLike(_, _, _)
SelectLike(d, i, pattern) ==
  IF i > d.seq THEN <<>>
  ELSE IF i \in DOMAIN d.fruits /\ Like(pattern, d.fruits[i].name)
    THEN <<from_tuple(SelectStar(d, i))>> \o SelectLike(d, i + 1, pattern)
  ELSE SelectLike(d, i + 1, pattern)

repo_search_by_name(d, name_pattern) == SelectLike(d, 1, "%" \o name_pattern \o "%")

search_by_name(d, name_pattern) ==
  IF name_pattern.t # "str" \/ Len(name_pattern.s) < 1
    THEN Raise(d, Error("Name pattern must be a non-empty string", <<"name_pattern">>))
    ELSE ReturnList(d, repo_search_by_name(d, name_pattern.s))

\* The write of FruitRepository.adjust_stock, given the record it read
\* earlier: UPDATE fruits SET quantity = fruit.quantity + adjustment.
\* Mutant: the UPDATE adds to the stored quantity (SET quantity = quantity + ?).
adjust_stock_write_increment(d, fruit, adjustment, ts) ==
  IF fruit.id.v \in DOMAIN d.fruits
    THEN repo_update_stock(d, fruit.id.v,
           PyNumber(d.fruits[fruit.id.v].quantity + adjustment.v), ts).db
    ELSE d

adjust_stock_write(d, fruit, adjustment, ts) ==
  repo_update_stock(d, fruit.id.v, PyNumber(fruit.quantity.v + adjustment.v), ts).db

----------------------------------------------------------------------------
(* services: FileService, one row of import_from_csv / import_from_json    *)

import_row(d, fruit_data, ts) ==
  IF fruit_data.id # Absent
    THEN LET existing_fruit == find_by_id(d, WhereId(fruit_data.id))
         IN  IF existing_fruit # NoFruit
               THEN LET fruit == repo_update(
                                   d,
                                   [setattrs(existing_fruit, fruit_data)
                                      EXCEPT !.id = existing_fruit.id],
                                   ts)
                    IN  IF fruit.rec = NoFruit THEN ReturnNone(fruit.db)
                        ELSE ReturnRec(fruit.db, fruit.rec)
               ELSE LET fruit == repo_create(d, from_dict(fruit_data), ts)
                    IN  IF fruit.rec = NoFruit THEN ReturnNone(fruit.db)
                        ELSE ReturnRec(fruit.db, fruit.rec)
    ELSE LET fruit == repo_create(d, from_dict(fruit_data), ts)
         IN  IF fruit.rec = NoFruit THEN ReturnNone(fruit.db)
             ELSE ReturnRec(fruit.db, fruit.rec)

----------------------------------------------------------------------------
(* controllers: FruitController, the variant that keeps the fruits in a     *)
(* list saved to a JSON file                                               *)

get_fruit_by_id(fruits, fruit_id) ==
  SelectSeq(fruits, LAMBDA fruit : fruit.id = fruit_id)

new_id(fruits) ==
  IF fruits = <<>> THEN 1
  ELSE LET ids == {fruits[k].id : k \in 1 .. Len(fruits)}
       IN  (CHOOSE i \in ids : \A j \in ids : j <= i) + 1

create_fruit(fruits, fruit_data) ==
  Append(fruits, [fruit_data EXCEPT !.id = new_id(fruits)])

delete_fruit(fruits, fruit_id) ==
  IF get_fruit_by_id(fruits, fruit_id) # <<>>
    THEN [fruits |-> SelectSeq(fruits, LAMBDA f : f.id # fruit_id), ret |-> "True"]
    ELSE [fruits |-> fruits, ret |-> "False"]

----------------------------------------------------------------------------
(* pages: the "Record Sale" form of the sales page.  fruits_df is the      *)
(* saved inventory (name -> quantity), sale_items the session's items.     *)

available_fruits(fruits_df) == {name \in DOMAIN fruits_df : fruits_df[name] > 0}

add_to_sale(sale_items, selected_fruit, quantity) ==
  Append(sale_items, [fruit |-> selected_fruit, quantity |-> quantity])

RECURSIVE sold_quantity(_, _)
sold_quantity(sale_items, fruit_name) ==
  IF sale_items = <<>> THEN 0
  ELSE (IF Head(sale_items).fruit = fruit_name THEN Head(sale_items).quantity ELSE 0)
         + sold_quantity(Tail(sale_items), fruit_name)

complete_sale(fruits_df, sale_items) ==
  [name \in DOMAIN fruits_df |-> fruits_df[name] - sold_quantity(sale_items, name)]

----------------------------------------------------------------------------
(* ui: the Pagination component                                            *)

Pagination(total_items, items_per_page) ==
  [total_items |-> total_items, items_per_page |-> items_per_page,
   current_page |-> 1,
   total_pages |->
     IF (total_items + items_per_page - 1) \div items_per_page >= 1
       THEN (total_items + items_per_page - 1) \div items_per_page
       ELSE 1,
   on_page_change |-> <<>>]

_go_to_prev_page(self) ==
  IF self.current_page > 1
    THEN [self EXCEPT !.current_page = @ - 1,
                      !.on_page_change = <<self.current_page - 1>>]
    ELSE [self EXCEPT !.on_page_change = <<>>]

_go_to_next_page(self) ==
  IF self.current_page < self.total_pages
    THEN [self EXCEPT !.current_page = @ + 1, !.on_page_change = <<>>]
    ELSE [self EXCEPT !.on_page_change = <<>>]

----------------------------------------------------------------------------
(* The state machine                                                       *)

VARIABLES db, now, call, issued, input, procs, controller, sales, pagination

vars == <<db, now, call, issued, input, procs, controller, sales, pagination>>

NoData ==
  [name |-> NameAbsent, category |-> NameAbsent, price |-> Absent,
   quantity |-> Absent, id |-> Absent, image_path |-> ImgAbsent]

QuantityInputs == {PyFloat(-1)} \cup {PyInt(k) : k \in -1 .. MaxQty}

CreateData ==
  [name : {NameStr("A"), NameStr("Fig")}, category : {NameStr("Fresh")},
   price : {PyInt(-1), PyInt(1)}, quantity : QuantityInputs,
   id : {Absent, PyId(1)}, image_path : {ImgAbsent}]

UpdateData ==
  [name : {NameAbsent, NameStr("A")}, category : {NameAbsent},
   price : {Absent}, quantity : {Absent, PyFloat(-1), PyInt(-1), PyInt(1)},
   id : {Absent} \cup {PyId(k) : k \in 1 .. MaxSeq}, image_path : {ImgAbsent}]

IdArgs == {PyId(k) : k \in 0 .. MaxSeq}
StockArgs == {PyFloat(1)} \cup {PyInt(k) : k \in -(MaxQty + 1) .. MaxQty}
PriceArgs == {PyInt(-1), PyInt(0), PyInt(1)}

Bounded(d) ==
  /\ d.seq <= MaxSeq
  /\ \A i \in DOMAIN d.fruits : d.fruits[i].quantity <= MaxQty * Scale

Idle ==
  [op |-> "", id |-> PyNone, arg |-> PyNone, ret |-> "", err |-> NoError,
   rec |-> NoFruit, list |-> <<>>, value |-> 0]

Called(op, id_value, arg, o) ==
  [op |-> op, id |-> id_value, arg |-> arg, ret |-> o.ret, err |-> o.err,
   rec |-> o.rec, list |-> o.list, value |-> o.value]

\* Callers that run adjust_stock step by step (used where calls interleave);
\* each holds its arguments, the record it read and what it returned.
Procs == {1, 2}

NoProc ==
  [pc |-> "idle", op |-> "", fruit_id |-> PyNone, adjustment |-> PyNone,
   new_quantity |-> PyNone, data |-> NoData, fruit |-> NoFruit,
   ret |-> "", rec |-> NoFruit]

NoProcs == [p \in Procs |-> NoProc]

\* The components that keep a state of their own: the JSON-file controller
\* (FruitController.fruits), the sales page (the saved inventory and the
\* items of the sale in the session) and the Pagination widget.
components == <<controller, sales, pagination>>

NoComponents ==
  /\ controller = [fruits |-> <<>>]
  /\ sales = [fruits_df |-> <<>>, sale_items |-> <<>>]
  /\ pagination = Pagination(0, 1)

Init ==
  /\ db = [fruits |-> <<>>, seq |-> 0]
  /\ now = 0
  /\ call = Idle
  /\ issued = {}
  /\ input = NoData
  /\ procs = NoProcs
  /\ NoComponents

Apply(op, id_value, arg, o) ==
  /\ Bounded(o.db)
  /\ db' = o.db
  /\ call' = Called(op, id_value, arg, o)
  /\ issued' = issued \cup (DOMAIN o.db.fruits \ DOMAIN db.fruits)
  /\ UNCHANGED <<now, input, procs, components>>

Create ==
  \E data \in CreateData : Apply("create", PyNone, PyNone, create(db, data, now))

Update ==
  \E id_value \in IdArgs, data \in UpdateData :
    Apply("update", id_value, PyNone, update(db, id_value, data, now))

Delete ==
  \E id_value \in IdArgs : Apply("delete", id_value, PyNone, delete(db, id_value))

GetById ==
  \E id_value \in IdArgs :
    Apply("get_by_id", id_value, PyNone, get_by_id(db, id_value))

UpdateStock ==
  \E fruit_id \in IdArgs, new_quantity \in StockArgs :
    Apply("update_stock", fruit_id, new_quantity,
          update_stock(db, fruit_id, new_quantity, now))

AdjustStock ==
  \E fruit_id \in IdArgs, adjustment \in StockArgs :
    Apply("adjust_stock", fruit_id, adjustment,
          adjust_stock(db, fruit_id, adjustment, now))

GetByPriceRange ==
  \E min_price \in PriceArgs, max_price \in PriceArgs :
    Apply("get_by_price_range", PyNone, PyNone,
          get_by_price_range(db, min_price, max_price))

Tick ==
  now < MaxTime /\ now' = now + 1 /\ UNCHANGED <<db, call, issued, input, procs, components>>

Next ==
  \/ Create
  \/ Update
  \/ Delete
  \/ GetById
  \/ UpdateStock
  \/ AdjustStock
  \/ GetByPriceRange

Spec == Init /\ [][Next]_vars

----------------------------------------------------------------------------
(* create applied once to each dictionary of a wider input set             *)

NameInputs == {NameAbsent, NameInt, NameStr("A"), NameStr("Fig")}
CategoryInputs == {NameAbsent, NameStr("F"), NameStr("Fresh")}
PriceInputs == {Absent, PyNone, PyText, PyInt(-1), PyInt(1), PyStr(Scale + 1)}
WideQuantityInputs ==
  {Absent, PyText, PyStr(Scale), PyStr(Scale + 1), PyFloat(Scale + 1)}
    \cup QuantityInputs

Dicts ==
  [name : NameInputs, category : CategoryInputs, price : PriceInputs,
   quantity : WideQuantityInputs, id : {Absent}, image_path : {ImgAbsent}]

InitInput ==
  /\ db = [fruits |-> <<>>, seq |-> 0]
  /\ now = 0
  /\ call = Idle
  /\ issued = {}
  /\ input \in Dicts
  /\ procs = NoProcs
  /\ NoComponents

CreateInput ==
  /\ call = Idle
  /\ db' = create(db, input, now).db
  /\ call' = Called("create", PyNone, PyNone, create(db, input, now))
  /\ issued' = issued \cup DOMAIN create(db, input, now).db.fruits
  /\ UNCHANGED <<now, input, procs, components>>

SpecCreate == InitInput /\ [][CreateInput]_vars

----------------------------------------------------------------------------
(* create or update applied once, with each dictionary of the wider input  *)
(* set, to a store that already holds one record                           *)

ValidData ==
  [name |-> NameStr("Fig"), category |-> NameStr("Fresh"), price |-> PyInt(1),
   quantity |-> PyInt(1), id |-> Absent, image_path |-> ImgAbsent]

Stored == create([fruits |-> <<>>, seq |-> 0], ValidData, 0).db

InitWrite ==
  /\ db = Stored
  /\ now = 0
  /\ call = Idle
  /\ issued = DOMAIN Stored.fruits
  /\ input \in Dicts
  /\ procs = NoProcs
  /\ NoComponents

UpdateInput ==
  /\ call = Idle
  /\ \E id_value \in IdArgs :
       /\ db' = update(db, id_value, input, now).db
       /\ call' = Called("update", id_value, PyNone, update(db, id_value, input, now))
  /\ UNCHANGED <<now, issued, input, procs, components>>

SpecWrite == InitWrite /\ [][CreateInput \/ UpdateInput]_vars

----------------------------------------------------------------------------
(* The calls that write, with the clock running                            *)

TimedUpdateData ==
  {[NoData EXCEPT !.quantity = PyInt(0)], [NoData EXCEPT !.id = PyId(2)]}
TimedAdjustArgs == {PyInt(-1), PyInt(1)}

TimedCreate == Apply("create", PyNone, PyNone, create(db, ValidData, now))

TimedUpdate ==
  \E id_value \in IdArgs, data \in TimedUpdateData :
    Apply("update", id_value, PyNone, update(db, id_value, data, now))

TimedUpdateStock ==
  \E fruit_id \in IdArgs, new_quantity \in StockArgs :
    Apply("update_stock", fruit_id, new_quantity,
          update_stock(db, fruit_id, new_quantity, now))

TimedAdjustStock ==
  \E fruit_id \in IdArgs, adjustment \in TimedAdjustArgs :
    Apply("adjust_stock", fruit_id, adjustment,
          adjust_stock(db, fruit_id, adjustment, now))

SpecTime ==
  Init /\ [][TimedCreate \/ TimedUpdate \/ TimedUpdateStock \/ TimedAdjustStock
               \/ Delete \/ Tick]_vars

----------------------------------------------------------------------------
(* The calls that read, over the stores that create and delete build       *)

ReadData ==
  [name : {NameStr("Fig")}, category : {NameStr("Fresh"), NameStr("Dried")},
   price : {PyInt(1), PyFloat(Scale + 1)}, quantity : {PyInt(0), PyInt(MaxQty)},
   id : {Absent}, image_path : {ImgAbsent}]

ReadIdArgs == IdArgs \cup {PyId(-1), PyFloat(Scale), PyStr(Scale), PyNone}
ReadPriceArgs == PriceArgs \cup {PyFloat(Scale + 1), PyText}

ReadCreate ==
  \E data \in ReadData : Apply("create", PyNone, PyNone, create(db, data, now))

ReadGetById ==
  \E id_value \in ReadIdArgs :
    Apply("get_by_id", id_value, PyNone, get_by_id(db, id_value))

ReadGetByPriceRange ==
  \E min_price \in ReadPriceArgs, max_price \in ReadPriceArgs :
    Apply("get_by_price_range", min_price, max_price,
          get_by_price_range(db, min_price, max_price))

GetAll == Apply("get_all", PyNone, PyNone, get_all(db))

GetTotalInventoryValue ==
  Apply("get_total_inventory_value", PyNone, PyNone, get_total_inventory_value(db))

GetCategorySummary ==
  Apply("get_category_summary", PyNone, PyNone, get_category_summary(db))

SpecRead ==
  Init /\ [][ReadCreate \/ Delete \/ ReadGetById \/ ReadGetByPriceRange \/ GetAll
               \/ GetTotalInventoryValue \/ GetCategorySummary]_vars

----------------------------------------------------------------------------
(* Search by name over stores of records with various names                *)

SearchNames == {"Apple", "A_B", "AxB", "5%"}
Patterns ==
  {NameInt, NameStr(""), NameStr("A"), NameStr("a"), NameStr("pp"), NameStr("_"),
   NameStr("%"), NameStr("x")}

SearchCreate ==
  \E n \in SearchNames :
    Apply("create", PyNone, PyNone,
          create(db, [ValidData EXCEPT !.name = NameStr(n)], now))

SearchByName ==
  \E name_pattern \in Patterns :
    Apply("search_by_name", PyNone, name_pattern, search_by_name(db, name_pattern))

SpecSearch == Init /\ [][SearchCreate \/ Delete \/ SearchByName]_vars

----------------------------------------------------------------------------
(* Two callers of adjust_stock on one record.  Every statement runs on a   *)
(* connection of its own that commits when it closes, so the steps of one  *)
(* call are separate steps here: the checks of the service, the SELECT of  *)
(* find_by_id with the test of the new quantity, the UPDATE, and the       *)
(* SELECT that fetches the record to return.                               *)

RaceIds == {PyId(0), PyId(1)}
RaceArgs == {PyInt(-1), PyInt(1)}

InitRace ==
  /\ db = Stored
  /\ now = 0
  /\ call = Idle
  /\ issued = DOMAIN Stored.fruits
  /\ input = NoData
  /\ procs = NoProcs
  /\ NoComponents

AdjustBegin(p) ==
  /\ procs[p].pc = "idle"
  /\ \E fruit_id \in RaceIds, adjustment \in RaceArgs :
       procs' = [procs EXCEPT ![p] =
                   IF id_invalid(fruit_id) \/ ~isinstance_int(adjustment)
                     THEN [@ EXCEPT !.pc = "done", !.ret = "raise",
                                    !.op = "adjust_stock",
                                    !.fruit_id = fruit_id, !.adjustment = adjustment]
                     ELSE [@ EXCEPT !.pc = "find", !.op = "adjust_stock",
                                    !.fruit_id = fruit_id, !.adjustment = adjustment]]
  /\ UNCHANGED <<db, now, call, issued, input, components>>

AdjustFind(p) ==
  /\ procs[p].pc = "find"
  /\ LET fruit == find_by_id(db, procs[p].fruit_id.v)
     IN  procs' = [procs EXCEPT ![p] =
                     IF fruit = NoFruit THEN [@ EXCEPT !.pc = "done", !.ret = "None"]
                     ELSE IF fruit.quantity.v + procs[p].adjustment.v < 0
                       THEN [@ EXCEPT !.pc = "done", !.ret = "raise", !.fruit = fruit]
                     ELSE [@ EXCEPT !.pc = "update", !.fruit = fruit]]
  /\ UNCHANGED <<db, now, call, issued, input, components>>

AdjustWrite(p) ==
  /\ procs[p].pc = "update"
  /\ db' = adjust_stock_write(db, procs[p].fruit, procs[p].adjustment, now)
  /\ procs' = [procs EXCEPT ![p].pc = "return"]
  /\ UNCHANGED <<now, call, issued, input, components>>

AdjustReturn(p) ==
  /\ procs[p].pc = "return"
  /\ LET rec == find_by_id(db, procs[p].fruit_id.v)
     IN  procs' = [procs EXCEPT ![p] =
                     [@ EXCEPT !.pc = "done", !.rec = rec,
                               !.ret = IF rec = NoFruit THEN "None" ELSE "record"]]
  /\ UNCHANGED <<db, now, call, issued, input, components>>

SpecRace ==
  InitRace /\ [][\E p \in Procs : \/ AdjustBegin(p)
                                  \/ AdjustFind(p)
                                  \/ AdjustWrite(p)
                                  \/ AdjustReturn(p)]_vars

----------------------------------------------------------------------------
(* Two callers, each making one call of adjust_stock, update_stock, update *)
(* or delete on the stored record, statement by statement.  update_stock   *)
(* ends with the UPDATE and SELECT of FruitRepository.update_stock, the    *)
(* steps AdjustReturn models for both stock calls.                         *)

CallerQuantities == {PyInt(-1), PyInt(0)}
CallerData == {[NoData EXCEPT !.name = NameStr("Kiwi")]}

StockBegin(p) ==
  /\ procs[p].pc = "idle"
  /\ \E fruit_id \in RaceIds, new_quantity \in CallerQuantities :
       procs' = [procs EXCEPT ![p] =
                   IF \/ id_invalid(fruit_id)
                      \/ ~isinstance_int(new_quantity)
                      \/ new_quantity.v < 0
                     THEN [@ EXCEPT !.pc = "done", !.ret = "raise",
                                    !.op = "update_stock", !.fruit_id = fruit_id,
                                    !.new_quantity = new_quantity]
                     ELSE [@ EXCEPT !.pc = "stock_get", !.op = "update_stock",
                                    !.fruit_id = fruit_id,
                                    !.new_quantity = new_quantity]]
  /\ UNCHANGED <<db, now, call, issued, input, components>>

StockGet(p) ==
  /\ procs[p].pc = "stock_get"
  /\ LET fruit == get_by_id(db, procs[p].fruit_id)
     IN  procs' = [procs EXCEPT ![p] =
                     IF fruit.ret = "None" THEN [@ EXCEPT !.pc = "done", !.ret = "None"]
                     ELSE [@ EXCEPT !.pc = "stock_update", !.fruit = fruit.rec]]
  /\ UNCHANGED <<db, now, call, issued, input, components>>

StockWrite(p) ==
  /\ procs[p].pc = "stock_update"
  /\ db' = repo_update_stock(db, procs[p].fruit_id.v, procs[p].new_quantity, now).db
  /\ procs' = [procs EXCEPT ![p].pc = "return"]
  /\ UNCHANGED <<now, call, issued, input, components>>

UpdateBegin(p) ==
  /\ procs[p].pc = "idle"
  /\ \E id_value \in RaceIds, data \in CallerData :
       procs' = [procs EXCEPT ![p] =
                   IF id_invalid(id_value)
                     THEN [@ EXCEPT !.pc = "done", !.ret = "raise", !.op = "update",
                                    !.fruit_id = id_value, !.data = data]
                     ELSE [@ EXCEPT !.pc = "update_find", !.op = "update",
                                    !.fruit_id = id_value, !.data = data]]
  /\ UNCHANGED <<db, now, call, issued, input, components>>

UpdateFind(p) ==
  /\ procs[p].pc = "update_find"
  /\ LET existing_model == find_by_id(db, procs[p].fruit_id.v)
     IN  procs' = [procs EXCEPT ![p] =
                     IF existing_model = NoFruit
                       THEN [@ EXCEPT !.pc = "done", !.ret = "None"]
                     ELSE IF _validate_model_data(procs[p].data, TRUE) # NoError
                       THEN [@ EXCEPT !.pc = "done", !.ret = "raise"]
                     ELSE [@ EXCEPT !.pc = "update_write",
                                    !.fruit = setattrs(existing_model, procs[p].data)]]
  /\ UNCHANGED <<db, now, call, issued, input, components>>

UpdateWrite(p) ==
  /\ procs[p].pc = "update_write"
  /\ db' = repo_update(db, procs[p].fruit, now).db
  /\ procs' = [procs EXCEPT ![p].pc = "update_return"]
  /\ UNCHANGED <<now, call, issued, input, components>>

UpdateReturn(p) ==
  /\ procs[p].pc = "update_return"
  /\ LET rec == find_by_id(db, WhereId(procs[p].fruit.id))
     IN  procs' = [procs EXCEPT ![p] =
                     [@ EXCEPT !.pc = "done", !.rec = rec,
                               !.ret = IF rec = NoFruit THEN "raise" ELSE "record"]]
  /\ UNCHANGED <<db, now, call, issued, input, components>>

DeleteBegin(p) ==
  /\ procs[p].pc = "idle"
  /\ \E id_value \in RaceIds :
       procs' = [procs EXCEPT ![p] =
                   IF id_invalid(id_value)
                     THEN [@ EXCEPT !.pc = "done", !.ret = "raise", !.op = "delete",
                                    !.fruit_id = id_value]
                     ELSE [@ EXCEPT !.pc = "delete_exists", !.op = "delete",
                                    !.fruit_id = id_value]]
  /\ UNCHANGED <<db, now, call, issued, input, components>>

DeleteExists(p) ==
  /\ procs[p].pc = "delete_exists"
  /\ procs' = [procs EXCEPT ![p] =
                 IF exists(db, procs[p].fruit_id.v)
                   THEN [@ EXCEPT !.pc = "delete_write"]
                   ELSE [@ EXCEPT !.pc = "done", !.ret = "False"]]
  /\ UNCHANGED <<db, now, call, issued, input, components>>

DeleteWrite(p) ==
  /\ procs[p].pc = "delete_write"
  /\ LET deleted == repo_delete(db, procs[p].fruit_id.v)
     IN  /\ db' = deleted.db
         /\ procs' = [procs EXCEPT ![p] =
                        [@ EXCEPT !.pc = "done",
                                  !.ret = IF deleted.rowcount > 0 THEN "True"
                                          ELSE "False"]]
  /\ UNCHANGED <<now, call, issued, input, components>>

SpecCallers ==
  InitRace /\ [][\E p \in Procs : \/ AdjustBegin(p)
                                  \/ AdjustFind(p)
                                  \/ AdjustWrite(p)
                                  \/ AdjustReturn(p)
                                  \/ StockBegin(p)
                                  \/ StockGet(p)
                                  \/ StockWrite(p)
                                  \/ UpdateBegin(p)
                                  \/ UpdateFind(p)
                                  \/ UpdateWrite(p)
                                  \/ UpdateReturn(p)
                                  \/ DeleteBegin(p)
                                  \/ DeleteExists(p)
                                  \/ DeleteWrite(p)]_vars

----------------------------------------------------------------------------
(* The JSON-file controller: create_fruit and delete_fruit on its list     *)

ControllerData ==
  [id : {0}, name : {"Fig", "Kiwi"}, price : {Scale}, quantity : {0},
   category : {"Fresh"}]

CreateFruit ==
  /\ new_id(controller.fruits) <= MaxSeq + 1
  /\ \E fruit_data \in ControllerData :
       controller' = [fruits |-> create_fruit(controller.fruits, fruit_data)]
  /\ issued' = issued \cup {new_id(controller.fruits)}
  /\ call' = [Idle EXCEPT !.op = "create_fruit", !.ret = "record",
                          !.id = PyId(new_id(controller.fruits))]
  /\ UNCHANGED <<db, now, input, procs, sales, pagination>>

DeleteFruit ==
  \E fruit_id \in 1 .. MaxSeq + 1 :
    /\ controller' = [fruits |-> delete_fruit(controller.fruits, fruit_id).fruits]
    /\ call' = [Idle EXCEPT !.op = "delete_fruit", !.id = PyId(fruit_id),
                            !.ret = delete_fruit(controller.fruits, fruit_id).ret]
    /\ UNCHANGED <<db, now, issued, input, procs, sales, pagination>>

SpecController == Init /\ [][CreateFruit \/ DeleteFruit]_vars

----------------------------------------------------------------------------
(* Import of one row of a file, and delete, on the store                   *)

ImportRows ==
  [name : {NameStr("Fig"), NameStr("Kiwi")}, category : {NameStr("Fresh")},
   price : {PyFloat(Scale)}, quantity : {PyInt(0), PyInt(1)},
   id : {Absent} \cup {PyId(k) : k \in 1 .. MaxSeq}, image_path : {ImgAbsent}]

ImportRow ==
  \E fruit_data \in ImportRows :
    Apply("import", fruit_data.id, fruit_data, import_row(db, fruit_data, now))

SpecImport == Init /\ [][ImportRow \/ Delete]_vars

----------------------------------------------------------------------------
(* The sales page: items added to a sale, cleared, and the sale completed  *)

SaleFruits == {"Apple", "Banana"}

InitSales ==
  /\ db = [fruits |-> <<>>, seq |-> 0]
  /\ now = 0
  /\ call = Idle
  /\ issued = {}
  /\ input = NoData
  /\ procs = NoProcs
  /\ controller = [fruits |-> <<>>]
  /\ sales \in [fruits_df : [SaleFruits -> 0 .. MaxQty + 1], sale_items : {<<>>}]
  /\ pagination = Pagination(0, 1)

AddToSale ==
  /\ Len(sales.sale_items) < MaxItems
  /\ \E selected_fruit \in available_fruits(sales.fruits_df) :
       \E quantity \in 1 .. sales.fruits_df[selected_fruit] :
         sales' = [sales EXCEPT
                     !.sale_items = add_to_sale(@, selected_fruit, quantity)]
  /\ UNCHANGED <<db, now, call, issued, input, procs, controller, pagination>>

ClearAllItems ==
  /\ sales.sale_items # <<>>
  /\ sales' = [sales EXCEPT !.sale_items = <<>>]
  /\ UNCHANGED <<db, now, call, issued, input, procs, controller, pagination>>

CompleteSale ==
  /\ sales.sale_items # <<>>
  /\ sales' = [fruits_df |-> complete_sale(sales.fruits_df, sales.sale_items),
               sale_items |-> <<>>]
  /\ UNCHANGED <<db, now, call, issued, input, procs, controller, pagination>>

SpecSales == InitSales /\ [][AddToSale \/ ClearAllItems \/ CompleteSale]_vars

----------------------------------------------------------------------------
(* The Pagination component under its two buttons                          *)

InitPagination ==
  /\ db = [fruits |-> <<>>, seq |-> 0]
  /\ now = 0
  /\ call = Idle
  /\ issued = {}
  /\ input = NoData
  /\ procs = NoProcs
  /\ controller = [fruits |-> <<>>]
  /\ sales = [fruits_df |-> <<>>, sale_items |-> <<>>]
  /\ \E total_items \in 0 .. MaxTotalItems, items_per_page \in 1 .. MaxItemsPerPage :
       pagination = Pagination(total_items, items_per_page)

GoToPrevPage ==
  /\ pagination' = _go_to_prev_page(pagination)
  /\ UNCHANGED <<db, now, call, issued, input, procs, controller, sales>>

GoToNextPage ==
  /\ pagination' = _go_to_next_page(pagination)
  /\ UNCHANGED <<db, now, call, issued, input, procs, controller, sales>>

SpecPagination == InitPagination /\ [][GoToPrevPage \/ GoToNextPage]_vars

----------------------------------------------------------------------------
(* Claims                                                                  *)

ValidationMessages ==
  {"Missing required fields",
   "Name must be a string with at least 2 characters",
   "Category must be a string with at least 2 characters",
   "Price must be a valid number",
   "Quantity must be a valid integer",
   "Invalid ID",
   "Fruit ID must be a positive integer",
   "Quantity must be a non-negative integer",
   "Adjustment must be an integer",
   "Stock adjustment would result in negative quantity",
   "Model must have an ID to be updated",
   "Price values must be valid numbers",
   "Price values cannot be negative",
   "Minimum price cannot be greater than maximum price",
   "Name pattern must be a non-empty string"}

WriteOps == {"create", "update", "update_stock", "adjust_stock"}

Live(d) == DOMAIN d.fruits

Neg(x) == [x EXCEPT !.v = -x.v]

\* C1: after a successful create, update, updateStock or adjustStock the
\* record the call wrote has price >= 0 and quantity >= 0: whatever value
\* validation accepted, the stored value is not negative.
C1_WrittenRecordNonNegative ==
  (call.op \in WriteOps /\ call.ret = "record" /\ call.rec.id.v \in Live(db))
    => /\ db.fruits[call.rec.id.v].price >= 0
       /\ db.fruits[call.rec.id.v].quantity >= 0

\* C2: a create whose input passes validation persists exactly one new row
\* and returns it: the call returns a record (not None, no exception) with
\* the store-assigned positive id and the supplied name, category, price and
\* quantity, whatever id the caller supplied.
C2_CreateReturnsStoredRecord ==
  [][\A data \in CreateData :
       (/\ call'.op = "create"
        /\ _validate_model_data(data, FALSE) = NoError
        /\ db' = create(db, data, now).db)
         => /\ Cardinality(Live(db')) = Cardinality(Live(db)) + 1
            /\ call'.ret = "record"
            /\ call'.rec.id.v > 0
            /\ call'.rec.id.v \in Live(db') \ Live(db)
            /\ call'.rec = find_by_id(db', call'.rec.id.v)
            /\ call'.rec.name = data.name
            /\ call'.rec.category = data.category
            /\ call'.rec.price.v = data.price.v
            /\ call'.rec.quantity.v = data.quantity.v]_vars

\* C3: update(id, fields) writes no record other than the one named by its
\* id argument, whatever keys fields has: every other record is the same
\* after the call, and a returned record carries the id argument.
C3_UpdateWritesOnlyItsId ==
  [][call'.op = "update"
       => /\ Live(db') = Live(db)
          /\ \A j \in Live(db) : j # call'.id.v => db'.fruits[j] = db.fruits[j]
          /\ call'.ret = "record" => call'.rec.id = call'.id]_vars

\* C4: a successful update(id, partialFields) sets each field named in
\* partialFields to the supplied value and leaves every other field of the
\* record with that id (name, category, price, quantity, image path,
\* createdAt) as it was.
C4_UpdateFrame ==
  [][\A data \in UpdateData :
       (/\ call'.op = "update"
        /\ call'.ret = "record"
        /\ db' = update(db, call'.id, data, now).db
        /\ call'.rec = update(db, call'.id, data, now).rec)
         => LET old == db.fruits[call'.id.v]
                new == db'.fruits[call'.id.v]
            IN  /\ new.name = IF KeyIn(data, "name") THEN data.name.s ELSE old.name
                /\ new.category =
                     IF KeyIn(data, "category") THEN data.category.s ELSE old.category
                /\ new.price = IF KeyIn(data, "price") THEN data.price.v ELSE old.price
                /\ new.quantity =
                     IF KeyIn(data, "quantity") THEN data.quantity.v ELSE old.quantity
                /\ new.image_path =
                     IF data.image_path # ImgAbsent THEN data.image_path
                     ELSE old.image_path
                /\ new.created_at = old.created_at]_vars

\* C5: an insert always takes an id that no record, live or deleted, has had
\* before, and adds exactly one row; so live ids stay distinct and the id of
\* a deleted record is never given to a later insert.
C5_IdsNeverReused ==
  [][/\ \A i \in Live(db') \ Live(db) : i > 0 /\ i \notin issued
     /\ (call'.op = "create" /\ call'.err.msg \notin ValidationMessages)
          => Cardinality(Live(db')) = Cardinality(Live(db)) + 1]_vars

C5_Witness ==
  /\ call.op = "create"
  /\ \E i \in issued \ Live(db) : \E j \in Live(db) : j > i

\* C6: adjustStock(id, delta) on an existing record with quantity q and an
\* integer delta: when q + delta < 0 the call raises the negative-quantity
\* error and the store is unchanged; otherwise the stored quantity becomes
\* q + delta and the call returns the updated record.
C6_AdjustStock ==
  [][(/\ call'.op = "adjust_stock"
      /\ isinstance_int(call'.id) /\ call'.id.v \in Live(db)
      /\ isinstance_int(call'.arg))
       => LET i == call'.id.v
              q == db.fruits[i].quantity
          IN  IF q + call'.arg.v < 0
                THEN /\ call'.ret = "raise"
                     /\ call'.err.msg =
                          "Stock adjustment would result in negative quantity"
                     /\ db' = db
                ELSE /\ call'.ret = "record"
                     /\ Live(db') = Live(db)
                     /\ db'.fruits[i].quantity = q + call'.arg.v
                     /\ call'.rec = find_by_id(db', i)
                     /\ call'.rec.quantity.v = q + call'.arg.v]_vars

C6_Witness ==
  /\ call.op = "adjust_stock"
  /\ call.ret = "raise"
  /\ call.err.msg = "Stock adjustment would result in negative quantity"
  /\ isinstance_int(call.arg)
  /\ call.id.v \in Live(db)
  /\ db.fruits[call.id.v].quantity > 0
  /\ db.fruits[call.id.v].quantity + call.arg.v < 0

\* C7: when adjustStock(id, delta) has succeeded and adjustStock(id, -delta)
\* is the next call and succeeds too, the quantity is back at its value
\* before the first call; both calls do succeed whenever the quantity is
\* non-negative before and after the first.
C7_AdjustRoundTrip ==
  [][(/\ call'.op = "adjust_stock"
      /\ call'.ret = "record")
       => LET i == call'.id.v
              back == adjust_stock(db', call'.id, Neg(call'.arg), now)
          IN  /\ back.ret = "record"
                   => back.db.fruits[i].quantity = db.fruits[i].quantity
              /\ db.fruits[i].quantity >= 0 => back.ret = "record"]_vars

C7_Witness ==
  /\ call.op = "adjust_stock"
  /\ call.ret = "record"
  /\ call.arg.v < 0
  /\ adjust_stock(db, call.id, Neg(call.arg), now).ret = "record"

\* C8: delete(id) on an existing record returns true and removes exactly
\* that record; afterwards getById(id) returns None and a second delete(id)
\* returns false.
C8_Delete ==
  [][(/\ call'.op = "delete"
      /\ isinstance_int(call'.id) /\ call'.id.v \in Live(db))
       => /\ call'.ret = "True"
          /\ Live(db') = Live(db) \ {call'.id.v}
          /\ \A j \in Live(db') : db'.fruits[j] = db.fruits[j]
          /\ get_by_id(db', call'.id).ret = "None"
          /\ delete(db', call'.id).ret = "False"
          /\ delete(db', call'.id).db = db']_vars

C8_Witness ==
  /\ call.op = "delete"
  /\ call.ret = "True"
  /\ Live(db) # {}

\* C9: a call that fails with a validation error has written nothing: the
\* stored records are the same after it as before it.
C9_ValidationFailureWritesNothing ==
  [][(call'.ret = "raise" /\ call'.err.msg \in ValidationMessages)
       => db' = db]_vars

C9_Witness ==
  /\ call.ret = "raise"
  /\ call.op = "adjust_stock"
  /\ call.err.msg \in ValidationMessages
  /\ call.id.v \in Live(db)

MissingOf(data) ==
  {f \in {"name", "category", "price", "quantity"} : data[f].t = "absent"}

InvalidOf(data) ==
  {f \in {"name", "category"} : data[f].t # "absent" /\ name_invalid(data[f])}
    \cup (IF data.price.t # "absent" /\ try_price(data.price) # ""
            THEN {"price"} ELSE {})
    \cup (IF data.quantity.t # "absent" /\ try_quantity(data.quantity) # ""
            THEN {"quantity"} ELSE {})

Range(seq) == {seq[k] : k \in 1 .. Len(seq)}

FirstOf(fs) ==
  IF "name" \in fs THEN "name"
  ELSE IF "category" \in fs THEN "category"
  ELSE IF "price" \in fs THEN "price"
  ELSE "quantity"

\* C10 as stated: the validation error raised by create lists every missing
\* and every invalid field of its input.
C10_ListsEveryProblem ==
  (call.op = "create" /\ call.ret = "raise" /\ call.err.msg \in ValidationMessages)
    => Range(call.err.fields) = MissingOf(input) \cup InvalidOf(input)

\* C10 amended: when required fields are missing, the error raised by create
\* lists all of the missing fields and no others; when none is missing, it
\* names only the first field with an invalid value, in the order name,
\* category, price, quantity; create raises no validation error otherwise.
C10_ListsMissingElseFirstInvalid ==
  call.op = "create"
    => IF MissingOf(input) # {}
         THEN /\ call.ret = "raise"
              /\ call.err.msg = "Missing required fields"
              /\ Range(call.err.fields) = MissingOf(input)
       ELSE IF InvalidOf(input) # {}
         THEN /\ call.ret = "raise"
              /\ call.err.msg \in ValidationMessages
              /\ call.err.fields = <<FirstOf(InvalidOf(input))>>
       ELSE call.err.msg \notin ValidationMessages

C10_Witness ==
  /\ call.op = "create"
  /\ call.ret = "raise"
  /\ MissingOf(input) = {}
  /\ Cardinality(InvalidOf(input)) >= 3
  /\ call.err.fields = <<"name">>

Present(data, f) == data[f].t # "absent"

\* C11: validation tells the two failures of price apart: a price that does
\* not parse as a number fails with "Price must be a valid number", a price
\* that parses and is negative fails with "Price cannot be negative"; and
\* likewise "Quantity must be a valid integer" and "Quantity cannot be
\* negative" for quantity.
C11_NegativeToldFromUnparsable ==
  (/\ call.op = "create"
   /\ MissingOf(input) = {}
   /\ {"name", "category"} \cap InvalidOf(input) = {})
    => /\ ~float_ok(input.price) => call.err.msg = "Price must be a valid number"
       /\ (float_ok(input.price) /\ float_(input.price) < 0)
            => call.err.msg = "Price cannot be negative"
       /\ (float_ok(input.price) /\ float_(input.price) >= 0 /\ ~int_ok(input.quantity))
            => call.err.msg = "Quantity must be a valid integer"
       /\ (float_ok(input.price) /\ float_(input.price) >= 0 /\ int_ok(input.quantity)
             /\ int_(input.quantity) < 0)
            => call.err.msg = "Quantity cannot be negative"

TooShort(x) == x.t # "str" \/ Len(x.s) < 2

C13_UpdateStock ==
  [][(call'.op = "update_stock" /\ now' = now)
       => /\ call'.arg.v < 0
               => /\ call'.ret = "raise"
                  /\ call'.err.msg \in ValidationMessages
                  /\ db' = db
          /\ (/\ call'.arg.v >= 0 /\ isinstance_int(call'.arg)
              /\ call'.id.v \in Live(db))
               => LET i == call'.id.v
                  IN  /\ call'.ret = "record"
                      /\ db'.seq = db.seq
                      /\ db'.fruits =
                           [db.fruits EXCEPT ![i].quantity = call'.arg.v,
                                             ![i].updated_at = now]
                      /\ call'.rec = find_by_id(db', i)
                      /\ call'.rec.quantity.v = call'.arg.v]_vars

C13_Witness ==
  /\ call.op = "update_stock"
  /\ call.ret = "record"
  /\ call.rec.quantity.v = MaxQty * Scale
  /\ db.fruits[call.id.v].quantity = MaxQty * Scale
  /\ db.fruits[call.id.v].updated_at > db.fruits[call.id.v].created_at

\* C20: every stored record has updatedAt >= createdAt, and a record that
\* has just been inserted has createdAt = updatedAt.
C20_UpdatedNotBeforeCreated ==
  [][/\ \A i \in Live(db') : db'.fruits[i].updated_at >= db'.fruits[i].created_at
     /\ \A i \in Live(db') \ Live(db) :
          /\ db'.fruits[i].created_at = now
          /\ db'.fruits[i].updated_at = now]_vars

C20_Witness ==
  /\ call.op \in {"update", "update_stock", "adjust_stock"}
  /\ call.ret = "record"
  /\ \E i \in Live(db) : db.fruits[i].updated_at > db.fruits[i].created_at
  /\ \E i \in Live(db) : db.fruits[i].created_at = now /\ db.fruits[i].updated_at = now

Ids(list) == {list[k].id.v : k \in 1 .. Len(list)}

\* C14: getByPriceRange(min, max) changes nothing in the store; it raises a
\* validation error when min > max or a bound is negative (with both bounds
\* non-negative and min > max, the error that the minimum cannot be greater
\* than the maximum); otherwise it returns, once each, exactly the stored
\* records whose price p has min <= p <= max.
C14_PriceRange ==
  [][call'.op = "get_by_price_range"
       => /\ db' = db
          /\ (float_ok(call'.id) /\ float_ok(call'.arg))
               => LET lo == call'.id.v
                      hi == call'.arg.v
                  IN  IF lo < 0 \/ hi < 0 \/ lo > hi
                        THEN /\ call'.ret = "raise"
                             /\ call'.err.msg \in ValidationMessages
                             /\ (lo >= 0 /\ hi >= 0)
                                  => call'.err.msg =
                                       "Minimum price cannot be greater than maximum price"
                        ELSE /\ call'.ret = "list"
                             /\ Ids(call'.list) =
                                  {i \in Live(db) : lo <= db.fruits[i].price
                                                    /\ db.fruits[i].price <= hi}
                             /\ Len(call'.list) = Cardinality(Ids(call'.list))
                             /\ \A k \in 1 .. Len(call'.list) :
                                  call'.list[k] = find_by_id(db, call'.list[k].id.v)]_vars

C14_Witness ==
  /\ call.op = "get_by_price_range"
  /\ call.ret = "list"
  /\ Len(call.list) = 1
  /\ Cardinality(Live(db)) = 2
  /\ call.id.v = call.arg.v

RECURSIVE SumOfProducts(_)
SumOfProducts(list) ==
  IF list = <<>> THEN 0
  ELSE Head(list).price.v * Head(list).quantity.v + SumOfProducts(Tail(list))

RECURSIVE SumOfQuantities(_)
SumOfQuantities(list) ==
  IF list = <<>> THEN 0
  ELSE Head(list).quantity.v + SumOfQuantities(Tail(list))

\* C15: in every reachable store getTotalInventoryValue() equals the sum of
\* price * quantity over the records getAll() returns, and is 0 for the
\* empty store.
C15_TotalIsSumOverGetAll ==
  /\ get_total_inventory_value(db).ret = "value"
  /\ get_total_inventory_value(db).value = SumOfProducts(get_all(db).list)
  /\ Live(db) = {} => get_total_inventory_value(db).value = 0
  /\ call.op = "get_total_inventory_value"
       => call.ret = "value" /\ call.value = SumOfProducts(get_all(db).list)

C15_Witness ==
  /\ call.op = "get_total_inventory_value"
  /\ call.value > 0
  /\ \E i, j \in Live(db) :
       /\ db.fruits[i].price # db.fruits[j].price
       /\ db.fruits[i].quantity > 0 /\ db.fruits[j].quantity > 0

InCategory(list, c) == SelectSeq(list, LAMBDA f : f.category.s = c)

\* C16: getCategorySummary() returns exactly one row for each category that
\* some stored record has and no other row; the row's count is the number of
\* records of the category, its total quantity the sum of their quantities
\* and its total value the sum of their price * quantity.
C16_CategorySummary ==
  LET rows == get_category_summary(db).list
      all == get_all(db).list
  IN  /\ {rows[k].category : k \in 1 .. Len(rows)}
           = {db.fruits[i].category : i \in Live(db)}
      /\ \A k, l \in 1 .. Len(rows) : rows[k].category = rows[l].category => k = l
      /\ \A k \in 1 .. Len(rows) :
           /\ rows[k].fruit_count = Len(InCategory(all, rows[k].category))
           /\ rows[k].total_quantity = SumOfQuantities(InCategory(all, rows[k].category))
           /\ rows[k].total_value = SumOfProducts(InCategory(all, rows[k].category))
      /\ call.op = "get_category_summary" => call.list = rows

C16_Witness ==
  /\ call.op = "get_category_summary"
  /\ Len(call.list) = 1
  /\ call.list[1].fruit_count = 2
  /\ call.list[1].total_value > 0
  /\ \E i, j \in Live(db) : i # j /\ db.fruits[i].price # db.fruits[j].price

\* C18: getById(id) never changes the store; it raises the invalid-id error
\* when id is not a positive integer; for a positive integer id it returns
\* the stored record with that id when there is one and None otherwise.
C18_GetById ==
  [][call'.op = "get_by_id"
       => /\ db' = db
          /\ IF ~isinstance_int(call'.id) \/ call'.id.v <= 0
               THEN call'.ret = "raise" /\ call'.err.msg = "Invalid ID"
             ELSE IF call'.id.v \in Live(db)
               THEN /\ call'.ret = "record"
                    /\ call'.rec.id = call'.id
                    /\ call'.rec.name.s = db.fruits[call'.id.v].name
                    /\ call'.rec.category.s = db.fruits[call'.id.v].category
                    /\ call'.rec.price.v = db.fruits[call'.id.v].price
                    /\ call'.rec.quantity.v = db.fruits[call'.id.v].quantity
             ELSE call'.ret = "None"]_vars

C18_Witness ==
  /\ call.op = "get_by_id"
  /\ call.ret = "None"
  /\ isinstance_int(call.id)
  /\ call.id.v \in issued \ Live(db)
  /\ Live(db) # {}

Contains(text, part) ==
  \E k \in 1 .. Len(text) - Len(part) + 1 : SubSeq(text, k, k + Len(part) - 1) = part

\* C17: searchByName(pattern) with a non-empty pattern string returns exactly
\* the stored records whose name contains pattern as a literal substring: no
\* record without the substring is returned and none with it is left out.
C17_LiteralSubstring ==
  (call.op = "search_by_name" /\ call.arg.t = "str" /\ Len(call.arg.s) >= 1)
    => /\ call.ret = "list"
       /\ Ids(call.list) = {i \in Live(db) : Contains(db.fruits[i].name, call.arg.s)}

BothAdjusted ==
  \A p \in Procs : procs[p].pc = "done" /\ procs[p].ret = "record"

SumOfAdjustments == procs[1].adjustment.v + procs[2].adjustment.v

\* C19: two adjustStock calls on one record can interleave so that one
\* adjustment is lost.  When both calls have returned a record, the final
\* quantity differs from initial + delta1 + delta2 exactly when both calls
\* read the quantity before either wrote; in that case the final quantity is
\* the initial one plus a single delta; such a state is reachable.
C19_LostUpdate ==
  BothAdjusted
    => LET initial == Stored.fruits[1].quantity
           final == db.fruits[1].quantity
       IN  IF \A p \in Procs : procs[p].fruit.quantity.v = initial
             THEN /\ final # initial + SumOfAdjustments
                  /\ \E p \in Procs : final = initial + procs[p].adjustment.v
             ELSE final = initial + SumOfAdjustments

C19_Witness ==
  /\ BothAdjusted
  /\ procs[1].adjustment = PyInt(1)
  /\ procs[2].adjustment = PyInt(1)
  /\ db.fruits[1].quantity = Stored.fruits[1].quantity + Scale
  /\ db.fruits[1].quantity # Stored.fruits[1].quantity + SumOfAdjustments

\* C21: createdAt of a record is set at insertion and never changed by
\* update, updateStock or adjustStock; each of these calls that succeeds on
\* a record sets the updatedAt of the record named by its id argument to the
\* time of the call and leaves the timestamps of every other record as they
\* were.
C21_Timestamps ==
  [][(call'.op \in {"update", "update_stock", "adjust_stock"} /\ now' = now)
       => /\ Live(db') = Live(db)
          /\ \A i \in Live(db) : db'.fruits[i].created_at = db.fruits[i].created_at
          /\ call'.ret = "record"
               => /\ db'.fruits[call'.id.v].updated_at = now
                  /\ \A j \in Live(db) \ {call'.id.v} :
                       db'.fruits[j].updated_at = db.fruits[j].updated_at]_vars

OnMissing ==
  /\ call'.op \in {"update", "update_stock", "adjust_stock", "delete"}
  /\ isinstance_int(call'.id)
  /\ call'.id.v > 0
  /\ call'.id.v \notin Live(db)

NotFound ==
  /\ call'.ret = IF call'.op = "delete" THEN "False" ELSE "None"
  /\ db' = db

\* C22 as stated: when no record has the given valid, positive id, update,
\* updateStock and adjustStock return None and delete returns False, none of
\* them raises, and the store is left as it was, whatever the other argument.
C22_NotFoundWhateverArgument == [][OnMissing => NotFound]_vars

\* C22: when no record has the given valid, positive id, update (whatever its
\* data) and adjustStock with an integer adjustment return None, updateStock
\* with a non-negative integer quantity returns None, delete returns False,
\* and the store is left as it was; updateStock and adjustStock with
\* another argument raise a validation error and also leave the store as it
\* was.
C22_NotFound ==
  [][OnMissing
       => IF \/ call'.op = "update_stock"
                  /\ ~(isinstance_int(call'.arg) /\ call'.arg.v >= 0)
             \/ call'.op = "adjust_stock" /\ ~isinstance_int(call'.arg)
            THEN /\ call'.ret = "raise"
                 /\ call'.err.msg \in ValidationMessages
                 /\ db' = db
            ELSE NotFound]_vars

C22_Witness ==
  /\ call.op \in {"update", "update_stock", "adjust_stock"}
  /\ call.id.v \in issued \ Live(db)
  /\ call.ret = "None"
  /\ Live(db) # {}

ControllerIds(fruits) == {fruits[k].id : k \in 1 .. Len(fruits)}

\* C23: in the JSON-file controller, after any sequence of create_fruit and
\* delete_fruit calls the ids of the live fruits are pairwise distinct, and
\* create_fruit never assigns an id that an earlier fruit, since deleted,
\* had.
C23_ControllerIdsNeverReused ==
  [][/\ Cardinality(ControllerIds(controller'.fruits)) = Len(controller'.fruits)
     /\ call'.op = "create_fruit" => call'.id.v \notin issued]_vars

\* C24: when FruitService.create raises an error to its caller, the call has
\* added no record: the committed records after the call are those before it.
C24_RaisingCreateAddsNothing ==
  [][(call'.op = "create" /\ call'.ret = "raise") => db'.fruits = db.fruits]_vars

StockOps == {"adjust_stock", "update_stock"}

\* C25: under every interleaving of the reads and writes of concurrent
\* adjustStock and updateStock calls on one record, the stored quantity is
\* never negative.
C25_QuantityNeverNegativeUnderRace ==
  \A i \in Live(db) : db.fruits[i].quantity >= 0

C25_Witness ==
  /\ \A p \in Procs : procs[p].pc = "done" /\ procs[p].ret = "record"
  /\ procs[1].op = "adjust_stock"
  /\ procs[1].adjustment = PyInt(-1)
  /\ procs[1].fruit.quantity.v = Stored.fruits[1].quantity
  /\ procs[2].op = "update_stock"
  /\ procs[2].new_quantity = PyInt(0)
  /\ db.fruits[1].quantity = 0

\* C26: the write of an update whose fields do not mention quantity leaves
\* the stored quantity of every record as it is at that moment, so a stock
\* change that completed before the write is still in the store after it.
C26_UpdateKeepsConcurrentStockChange ==
  [][\A p \in Procs :
       (/\ procs[p].pc = "update_write"
        /\ procs'[p].pc = "update_return"
        /\ ~KeyIn(procs[p].data, "quantity"))
         => /\ Live(db') = Live(db)
            /\ \A i \in Live(db) : db'.fruits[i].quantity = db.fruits[i].quantity]_vars

\* C27: a record that one caller deleted is never brought back by a later
\* step of another caller's update, updateStock or adjustStock that read
\* the record before the delete, and a stock call that finishes after the
\* delete returns None.
C27_DeletedStaysDeleted ==
  [][/\ \A i \in issued \ Live(db) : i \notin Live(db')
     /\ \A p \in Procs :
          (/\ procs[p].op \in StockOps
           /\ procs[p].pc = "return"
           /\ procs'[p].pc = "done"
           /\ procs[p].fruit_id.v \notin Live(db))
            => procs'[p].ret = "None"]_vars

C27_Witness ==
  \E p, q \in Procs :
    /\ procs[p].op = "delete"
    /\ procs[p].ret = "True"
    /\ procs[q].op \in StockOps
    /\ procs[q].fruit # NoFruit
    /\ procs[q].pc = "done"
    /\ procs[q].ret = "None"
    /\ procs[q].fruit_id.v \in issued \ Live(db)

\* C30: an imported row that carries an id updates the record with that id
\* in place when one is stored, and otherwise creates a record with that id;
\* either way the record read under the id of the row afterwards has the
\* values of the row.
C30_ImportedUnderItsId ==
  [][(call'.op = "import" /\ call'.id # Absent)
       => LET i == call'.id.v
              fruit_data == call'.arg
          IN  /\ i \in Live(db')
              /\ find_by_id(db', i).name = fruit_data.name
              /\ find_by_id(db', i).quantity.v = fruit_data.quantity.v
              /\ i \in Live(db) => Live(db') = Live(db)]_vars

\* C28: in the sales page, after any sequence of 'Add to Sale' actions, each
\* of at most the quantity of the fruit that is available at that moment,
\* followed by 'Complete Sale', the saved quantity of every fruit is >= 0,
\* also when one fruit was added to the sale more than once.
C28_SavedInventoryNonNegative ==
  \A name \in DOMAIN sales.fruits_df : sales.fruits_df[name] >= 0

\* C29: the Pagination component keeps 1 <= current_page <= total_pages
\* under any sequence of previous and next actions, and every action that
\* changes current_page, previous or next, calls on_page_change with the
\* new current page.
C29_PageInRangeAndNotified ==
  [][/\ 1 <= pagination'.current_page
     /\ pagination'.current_page <= pagination'.total_pages
     /\ pagination'.current_page # pagination.current_page
          => pagination'.on_page_change = <<pagination'.current_page>>]_vars

====
